---- MODULE Spec2Model ----
(***************************************************************************)
(* A model of metrics-exporter-statsd: the recorder facade over the shared *)
(* metrics registry (src/src/recorder.rs, src/src/lib.rs) and the statsd   *)
(* exporter that encodes the registry and sends it over UDP                *)
(* (src/src/statsd.rs, src/src/lib.rs).                                    *)
(*                                                                         *)
(* Several schedulings of the same code are given:                         *)
(*   Spec        one caller drives the Recorder API (the tests' shape);    *)
(*   SpecConc    several producers race inside get_or_create_identifier;   *)
(*   SpecInc     several producers race inside increment_counter;          *)
(*   SpecExport  producers run beside the exporter's run loop;             *)
(*   SpecRead    producers run beside one export(), with write histories;  *)
(*   SpecStop    SpecExport with a shutdown request and a fair exporter;   *)
(*   SpecSend    the run loop over a socket accepting any byte count;      *)
(*   SpecClone   the Recorder API driven through clones of a recorder;     *)
(*   SpecJson    producers run beside HtmlExporter::json_snapshot          *)
(*               (src/src/html/mod.rs).                                    *)
(* SpecBig is SpecExport with metric names long enough for a payload to    *)
(* exceed 512 bytes.                                                       *)
(***************************************************************************)
EXTENDS Integers, Sequences, FiniteSets, Bags, TLC

VARIABLES
    handles,    \* the registry's slab: Identifier -> (CompositeKey, Handle)
    mappings,   \* the registry's map CompositeKey -> Identifier
    lock,       \* the registry's registration mutex: its holder, or NoProducer
    ppc,        \* per producer: where it is inside get_or_create_identifier
    issued,     \* history: what each register_* call returned
    applied,    \* history: per Identifier, the arguments written through it
    nOps,       \* number of producer updates performed so far
    trace,      \* whether the history variables are recorded in this run
    epc,        \* the exporter thread's position in run()/send()/export()
    snapshot,   \* export(): the enumeration get_handles() returned
    idx,        \* export(): number of enumerated entries already visited
    buf,        \* export(): the BytesMut being filled
    data,       \* send(): the Bytes still to be sent
    exported,   \* the buffer export() returned in the current tick
    sendLog,    \* the send_to calls of the current tick: payload and result
    clean,      \* no producer call has run since the current tick began
    mark,       \* history: per Identifier, the writes made before this tick
    shutdown,   \* a request from outside to stop the export loop was made
    heap,       \* the registries allocated behind Arc pointers
    recs,       \* the recorder values: each holds the address of a registry
    json        \* the object the last json_snapshot() returned

regVars == <<handles, mappings, lock, ppc, issued, applied, nOps, trace>>
expVars == <<epc, snapshot, idx, buf, data, exported, sendLog, clean>>
auxVars == <<mark, shutdown, heap, recs, json>>
vars == <<handles, mappings, lock, ppc, issued, applied, nOps, trace,
          epc, snapshot, idx, buf, data, exported, sendLog, clean,
          mark, shutdown, heap, recs, json>>

----------------------------------------------------------------------------
(* Bounds of the model.                                                    *)

\* Number of entries the registry may hold.
MaxEntries == 2
\* Number of producer updates (increment/update/record) in one run.
MaxOps == 2
\* Number of producer updates in one run beside the exporter.
MaxTickOps == 1
\* Width in bits of the counter word (a u64 in the code, scaled down so that
\* the wrap-around of fetch_add is reachable).
CounterBits == 2
\* Number of send_to calls in one tick.
MaxSends == 2

\* Length of the long metric name of SpecBig.
LongNameLen == 252

CounterMod == 2 ^ CounterBits

----------------------------------------------------------------------------
(* Input domains.                                                          *)

MetricKinds == {"Counter", "Gauge", "Histogram"}

spam == <<"s", "p", "a", "m">>
ham == <<"h", "a", "m">>

\* Metric names (Key::from_name), as their UTF-8 bytes.
Names == {spam, ham}

\* The names the racing producers of SpecConc register.
RacedNames == {spam}

\* Counter deltas; with CounterMod = 4 the sum 1 + 3 wraps.
Deltas == {1, 3}

\* Gauge values, in tenths: 3.3 and 42.0 (0.0 is the initial value).
GaugeValues == {33, 420}

\* Histogram samples.
Samples == {5}

Producers == {1, 2}
NoProducer == 0

\* Identifiers are slab indices; NoId stands for "no mapping" (None).
NoId == 0
Identifiers == 1..(MaxEntries + 1)

----------------------------------------------------------------------------
(* metrics_util::Handle as used by the recorder.                           *)

\* Handle::counter() / Handle::gauge() / Handle::histogram(): zero-valued.
NewHandle(kind, name) ==
    [kind |-> kind, name |-> name, counter |-> 0, gauge |-> 0, hist |-> <<>>]

\* CompositeKey::new(kind, key): equality is over the full pair.
KeyByNameOnly(kind, name) == <<"Counter", name>>
CompositeKey(kind, name) == <<kind, name>>

\* handle.increment_counter(value): an atomic fetch_add, wrapping at the
\* width of the counter word.
increment_counter_lossy(h, value) == [h EXCEPT !.counter = value % CounterMod]
increment_counter(h, value) ==
    [h EXCEPT !.counter = (h.counter + value) % CounterMod]

\* The fetch_add inside increment_counter, made by a caller that saw the
\* value seen when it looked the handle up: one atomic read-modify-write on
\* the value the word holds now (a load followed by a store would add to
\* what was seen).
fetch_add_on_seen(h, seen, value) ==
    [h EXCEPT !.counter = (seen + value) % CounterMod]
fetch_add(h, seen, value) == increment_counter(h, value)

\* handle.update_gauge(value): an atomic store of the value's bits.
update_gauge_accumulate(h, value) == [h EXCEPT !.gauge = h.gauge + value]
update_gauge(h, value) == [h EXCEPT !.gauge = value]

\* handle.record_histogram(value): pushes the sample.
record_histogram(h, value) == [h EXCEPT !.hist = Append(h.hist, value)]

\* handle.read_counter() / handle.read_gauge(): one atomic load of the whole
\* word (a torn read would mix in bits the word never held).
read_counter_torn(h) == h.counter + CounterMod
read_counter(h) == h.counter
read_gauge(h) == h.gauge

\* The slab after handle.read_counter() / read_gauge() on the handle at id:
\* both are atomic loads, which leave the value in place (a swap would take
\* it out).
after_read_swapping(hs, id) == [hs EXCEPT ![id].counter = 0, ![id].gauge = 0]
after_read(hs, id) == hs

----------------------------------------------------------------------------
(* metrics_util::Registry as used by the recorder.                         *)

\* mappings.get(&key)
Lookup(m, key) ==
    IF \E e \in m : CompositeKey(e.kind, e.name) = key
    THEN (CHOOSE e \in m : CompositeKey(e.kind, e.name) = key).id
    ELSE NoId

\* The second look at the mapping table, made while holding the lock.
RecheckSkipped(m, key) == NoId
Recheck(m, key) == Lookup(m, key)

\* registry.with_handle(id, f): the slab with f applied to the handle at
\* id, whose result is new; unchanged (None) if the slab has no such slot.
with_handle_or_insert(hs, id, new) ==
    IF id \in DOMAIN hs THEN [hs EXCEPT ![id] = new]
    ELSE Append(hs, NewHandle("Counter", <<>>))
with_handle(hs, id, new) ==
    IF id \in DOMAIN hs THEN [hs EXCEPT ![id] = new] ELSE hs

\* The producer updates one run may make.
OpBudget == IF trace THEN MaxOps ELSE MaxTickOps

\* History of one producer call on Identifier id.
Record(id, arg) ==
    IF trace /\ id \in DOMAIN applied
    THEN [applied EXCEPT ![id] = Append(applied[id], arg)]
    ELSE applied

\* History of one register_* return.
Issue(kind, name, id, path) ==
    IF trace
    THEN issued \cup {[kind |-> kind, name |-> name, id |-> id, path |-> path]}
    ELSE issued

\* A producer that is not inside a register_* call.
Idle ==
    [pc |-> "idle", kind |-> "Counter", name |-> <<>>, id |-> NoId,
     value |-> 0, seen |-> 0]

Init ==
    /\ handles = <<>>
    /\ mappings = {}
    /\ lock = NoProducer
    /\ ppc = [p \in Producers |-> Idle]
    /\ issued = {}
    /\ applied = <<>>
    /\ nOps = 0
    /\ trace = TRUE
    /\ epc = "sleeping"
    /\ snapshot = <<>>
    /\ idx = 0
    /\ buf = <<>>
    /\ data = <<>>
    /\ exported = <<>>
    /\ sendLog = <<>>
    /\ clean = TRUE
    /\ mark = <<>>
    /\ shutdown = FALSE
    /\ heap = <<>>
    /\ recs = <<>>
    /\ json = <<>>

----------------------------------------------------------------------------
(* The Recorder API driven by one caller at a time.                        *)

\* The registry after a handle for a new key has been put into the slab;
\* the Identifier is the slot it went to.
SlabInsertReusing(hs, kind, name) ==
    IF hs = <<>> THEN <<NewHandle(kind, name)>>
    ELSE [hs EXCEPT ![Len(hs)] = NewHandle(kind, name)]
SlabInsert(hs, kind, name) == Append(hs, NewHandle(kind, name))

\* register_counter / register_gauge / register_histogram: the whole of
\* get_or_create_identifier, run by one caller without interruption: the
\* look at the mapping table, the lock, the second look, the insertion into
\* the slab and the publication of the mapping.
Register(kind, name) ==
    LET key == CompositeKey(kind, name)
        found == Lookup(mappings, key)
        again == Recheck(mappings, key)
        id == Len(handles) + 1
    IN  /\ \A p \in Producers : ppc[p].pc = "idle"
        /\ lock = NoProducer
        /\ IF found # NoId
           THEN /\ issued' = Issue(kind, name, found, "fast")
                /\ UNCHANGED <<handles, mappings, applied>>
           ELSE IF again # NoId
           THEN /\ issued' = Issue(kind, name, again, "recheck")
                /\ UNCHANGED <<handles, mappings, applied>>
           ELSE /\ Len(handles) < MaxEntries
                /\ handles' = SlabInsert(handles, kind, name)
                /\ applied' = Append(applied, <<>>)
                /\ mappings' = mappings \cup
                       {[kind |-> kind, name |-> name, id |-> id]}
                /\ issued' = Issue(kind, name, id, "created")
        /\ clean' = FALSE
        /\ UNCHANGED <<lock, ppc, nOps, trace>>
        /\ UNCHANGED <<epc, snapshot, idx, buf, data, exported, sendLog>>
        /\ UNCHANGED auxVars

\* Recorder::increment_counter(id, value)
IncrementCounter(id, value) ==
    LET new == IF id \in DOMAIN handles
               THEN increment_counter(handles[id], value) ELSE <<>>
    IN  /\ nOps < OpBudget
        /\ id \in DOMAIN handles => handles[id].kind = "Counter"
        /\ handles' = with_handle(handles, id, new)
        /\ applied' = Record(id, value)
        /\ nOps' = nOps + 1
        /\ clean' = FALSE
        /\ UNCHANGED <<mappings, lock, ppc, issued, trace>>
        /\ UNCHANGED <<epc, snapshot, idx, buf, data, exported, sendLog>>
        /\ UNCHANGED auxVars

\* Recorder::update_gauge(id, value)
UpdateGauge(id, value) ==
    LET new == IF id \in DOMAIN handles
               THEN update_gauge(handles[id], value) ELSE <<>>
    IN  /\ nOps < OpBudget
        /\ id \in DOMAIN handles => handles[id].kind = "Gauge"
        /\ handles' = with_handle(handles, id, new)
        /\ applied' = Record(id, value)
        /\ nOps' = nOps + 1
        /\ clean' = FALSE
        /\ UNCHANGED <<mappings, lock, ppc, issued, trace>>
        /\ UNCHANGED <<epc, snapshot, idx, buf, data, exported, sendLog>>
        /\ UNCHANGED auxVars

\* Recorder::record_histogram(id, value)
RecordHistogram(id, value) ==
    LET new == IF id \in DOMAIN handles
               THEN record_histogram(handles[id], value) ELSE <<>>
    IN  /\ nOps < OpBudget
        /\ id \in DOMAIN handles => handles[id].kind = "Histogram"
        /\ handles' = with_handle(handles, id, new)
        /\ applied' = Record(id, value)
        /\ nOps' = nOps + 1
        /\ clean' = FALSE
        /\ UNCHANGED <<mappings, lock, ppc, issued, trace>>
        /\ UNCHANGED <<epc, snapshot, idx, buf, data, exported, sendLog>>
        /\ UNCHANGED auxVars

RegisterAny == \E kind \in MetricKinds, name \in Names : Register(kind, name)
IncrementAny == \E id \in Identifiers, value \in Deltas : IncrementCounter(id, value)
UpdateAny == \E id \in Identifiers, value \in GaugeValues : UpdateGauge(id, value)
RecordAny == \E id \in Identifiers, value \in Samples : RecordHistogram(id, value)

Next ==
    \/ RegisterAny
    \/ IncrementAny
    \/ UpdateAny
    \/ RecordAny

Spec == Init /\ [][Next]_vars

----------------------------------------------------------------------------
(* get_or_create_identifier run by several producers at once.              *)

\* Producer p calls register_*(name): the first look at the mapping table,
\* made without the lock. A hit returns at once.
RegBegin(p, kind, name) ==
    LET found == Lookup(mappings, CompositeKey(kind, name))
    IN  /\ ppc[p].pc = "idle"
        /\ IF found # NoId
           THEN /\ issued' = Issue(kind, name, found, "fast")
                /\ UNCHANGED ppc
           ELSE /\ Len(handles) < MaxEntries
                /\ ppc' = [ppc EXCEPT ![p] = [Idle EXCEPT !.pc = "lock",
                                                   !.kind = kind,
                                                   !.name = name]]
                /\ UNCHANGED issued
        /\ UNCHANGED <<handles, mappings, lock, applied, nOps, trace>>
        /\ UNCHANGED expVars
        /\ UNCHANGED auxVars

\* Producer p takes the registration lock.
RegLock(p) ==
    /\ ppc[p].pc = "lock"
    /\ lock = NoProducer
    /\ lock' = p
    /\ ppc' = [ppc EXCEPT ![p].pc = "locked"]
    /\ UNCHANGED <<handles, mappings, issued, applied, nOps, trace>>
    /\ UNCHANGED expVars
    /\ UNCHANGED auxVars

\* Producer p, holding the lock, looks again; on a hit it releases the lock
\* and returns, otherwise it creates the handle and puts it into the slab.
RegCreate(p) ==
    LET kind == ppc[p].kind
        name == ppc[p].name
        again == Recheck(mappings, CompositeKey(kind, name))
    IN  /\ ppc[p].pc = "locked"
        /\ IF again # NoId
           THEN /\ issued' = Issue(kind, name, again, "recheck")
                /\ lock' = NoProducer
                /\ ppc' = [ppc EXCEPT ![p] = Idle]
                /\ UNCHANGED <<handles, applied, clean>>
           ELSE /\ handles' = SlabInsert(handles, kind, name)
                /\ applied' = Append(applied, <<>>)
                /\ ppc' = [ppc EXCEPT ![p].pc = "publish",
                                      ![p].id = Len(handles) + 1]
                /\ clean' = FALSE
                /\ UNCHANGED <<issued, lock>>
        /\ UNCHANGED <<mappings, nOps, trace>>
        /\ UNCHANGED <<epc, snapshot, idx, buf, data, exported, sendLog>>
        /\ UNCHANGED auxVars

\* Producer p stores the new mapping table, releases the lock and returns.
RegPublish(p) ==
    /\ ppc[p].pc = "publish"
    /\ mappings' = mappings \cup
           {[kind |-> ppc[p].kind, name |-> ppc[p].name, id |-> ppc[p].id]}
    /\ issued' = Issue(ppc[p].kind, ppc[p].name, ppc[p].id, "created")
    /\ lock' = NoProducer
    /\ ppc' = [ppc EXCEPT ![p] = Idle]
    /\ UNCHANGED <<handles, applied, nOps, trace>>
    /\ UNCHANGED expVars
    /\ UNCHANGED auxVars

RegBeginAny ==
    \E p \in Producers, kind \in MetricKinds, name \in RacedNames : RegBegin(p, kind, name)
RegLockAny == \E p \in Producers : RegLock(p)
RegCreateAny == \E p \in Producers : RegCreate(p)
RegPublishAny == \E p \in Producers : RegPublish(p)

\* A producer increments through an Identifier some register_* call returned.
IncrementIssued ==
    \E r \in issued, value \in Deltas :
        r.kind = "Counter" /\ IncrementCounter(r.id, value)

NextConc ==
    \/ RegBeginAny
    \/ RegLockAny
    \/ RegCreateAny
    \/ RegPublishAny
    \/ IncrementIssued

SpecConc == Init /\ [][NextConc]_vars

----------------------------------------------------------------------------
(* The statsd encoder: StatsdExporter::export / StatsdRecorder::export.    *)

DigitChars == <<"0", "1", "2", "3", "4", "5", "6", "7", "8", "9">>

\* format!("{}", n) for an unsigned integer: its decimal digits.
RECURSIVE FormatU64(_)
FormatU64(n) ==
    IF n < 10 THEN <<DigitChars[n + 1]>>
    ELSE FormatU64(n \div 10) \o <<DigitChars[(n % 10) + 1]>>

\* format!("{}", x) for a float: the shortest decimal that reads back as x,
\* without a fraction when x is integral. x is given in tenths.
FormatF64(x) ==
    IF x % 10 = 0 THEN FormatU64(x \div 10)
    ELSE FormatU64(x \div 10) \o <<".">> \o FormatU64(x % 10)

\* buf.put_slice(bytes)
put_slice(b, bytes) == b \o bytes

\* metric_name.as_bytes(): names are kept as their bytes.
as_bytes(name) == name

\* One iteration of the loop of export() over (desc, handle).
EncodeEntryNoFilter(b, h) ==
    LET named == put_slice(put_slice(b, as_bytes(h.name)), <<":">>)
    IN  IF h.kind = "Counter"
        THEN put_slice(put_slice(named,
                 FormatU64(read_counter(h)) \o <<"|", "c">>), <<"\n">>)
        ELSE IF h.kind = "Gauge"
        THEN put_slice(put_slice(named,
                 FormatF64(read_gauge(h)) \o <<"|", "g">>), <<"\n">>)
        ELSE named
EncodeEntry(b, h) ==
    IF h.kind \notin {"Counter", "Gauge"} THEN b
    ELSE LET named == put_slice(put_slice(b, as_bytes(h.name)), <<":">>)
         IN  IF h.kind = "Counter"
             THEN put_slice(put_slice(named,
                      FormatU64(read_counter(h)) \o <<"|", "c">>), <<"\n">>)
             ELSE IF h.kind = "Gauge"
             THEN put_slice(put_slice(named,
                      FormatF64(read_gauge(h)) \o <<"|", "g">>), <<"\n">>)
             ELSE named

\* registry.get_handles(): every entry of the slab once, in an order the
\* hash map decides.
EnumerationsLosingOne(hs) ==
    {e \in UNION {[1..n -> DOMAIN hs] : n \in 0..Len(hs)} :
        /\ \A i \in DOMAIN e, j \in DOMAIN e : i # j => e[i] # e[j]
        /\ Len(e) = IF Len(hs) > 1 THEN Len(hs) - 1 ELSE Len(hs)}
Enumerations(hs) ==
    {e \in [DOMAIN hs -> DOMAIN hs] :
        \A i \in DOMAIN e, j \in DOMAIN e : i # j => e[i] # e[j]}

----------------------------------------------------------------------------
(* The sender: send() and run().                                           *)

\* data.has_remaining()
has_remaining_always(d) == TRUE
has_remaining(d) == d # <<>>

\* data.advance(count)
advance_dropping_tail(d, count) == <<>>
advance_nowhere(d, count) == d
advance(d, count) == SubSeq(d, count + 1, Len(d))

\* The outcome of send_to: an error, or the number of bytes written.
Err == -1

\* The byte counts send_to may report for a payload: all of it, or a short
\* write (no byte, or one byte).
ShortCounts(d) == {0, 1, Len(d)}

\* The results of the n-th send_to of a tick; the last one the model allows
\* is not short.
SendResults(d, n) ==
    {Err} \cup (IF n >= MaxSends THEN {Len(d)} ELSE ShortCounts(d))

\* History: the number of writes each Identifier has received so far.
WritesSoFar ==
    IF trace THEN [id \in DOMAIN applied |-> Len(applied[id])] ELSE mark

\* The `?` on send_to's result: where send() is after it. An Err makes
\* send() return it at once; otherwise the loop goes on.
TryIgnoringErr(result) == "send"
Try(result) == IF result = Err THEN "failed" ELSE "send"

\* run(): the sleep has elapsed; send() calls export(), which creates the
\* buffer and enumerates the registry.
Tick ==
    /\ epc = "sleeping"
    /\ \E e \in Enumerations(handles) : snapshot' = e
    /\ idx' = 0
    /\ buf' = <<>>
    /\ data' = <<>>
    /\ exported' = <<>>
    /\ sendLog' = <<>>
    /\ clean' = TRUE
    /\ epc' = "export"
    /\ mark' = WritesSoFar
    /\ UNCHANGED regVars
    /\ UNCHANGED <<shutdown, heap, recs, json>>

\* export(): one iteration of the loop; the value is read from the handle
\* at this moment.
ExportEntry ==
    /\ epc = "export"
    /\ idx < Len(snapshot)
    /\ buf' = EncodeEntry(buf, handles[snapshot[idx + 1]])
    /\ idx' = idx + 1
    /\ handles' = after_read(handles, snapshot[idx + 1])
    /\ UNCHANGED <<epc, snapshot, data, exported, sendLog, clean>>
    /\ UNCHANGED <<mappings, lock, ppc, issued, applied, nOps, trace>>
    /\ UNCHANGED auxVars

\* export() returns buf.freeze(); send() holds it as data.
ExportReturn ==
    /\ epc = "export"
    /\ idx = Len(snapshot)
    /\ data' = buf
    /\ exported' = buf
    /\ buf' = <<>>
    /\ snapshot' = <<>>
    /\ idx' = 0
    /\ epc' = "send"
    /\ UNCHANGED <<sendLog, clean>>
    /\ UNCHANGED regVars
    /\ UNCHANGED auxVars

\* send(): one iteration of the while loop: send_to(data.bytes()) hands all
\* remaining bytes to the socket as one datagram; `?` returns its error,
\* otherwise data advances by the count it reported.
SendWith(results) ==
    /\ epc = "send"
    /\ has_remaining(data)
    /\ \E result \in results :
        /\ sendLog' = Append(sendLog, [payload |-> data, result |-> result])
        /\ epc' = Try(result)
        /\ data' = IF result = Err THEN <<>> ELSE advance(data, result)
    /\ UNCHANGED <<snapshot, idx, buf, exported, clean>>
    /\ UNCHANGED regVars
    /\ UNCHANGED auxVars

\* The same, with the results the bounded socket of the model gives.
SendTo == SendWith(SendResults(data, Len(sendLog) + 1))

\* send(): nothing remains; it returns Ok(()) and run()'s unwrap passes.
SendReturnOk ==
    /\ epc = "send"
    /\ ~has_remaining(data)
    /\ epc' = "returned"
    /\ UNCHANGED <<snapshot, idx, buf, data, exported, sendLog, clean>>
    /\ UNCHANGED regVars
    /\ UNCHANGED auxVars

\* run(): the loop goes round to thread::sleep.
Sleep ==
    /\ epc = "returned"
    /\ epc' = "sleeping"
    /\ exported' = <<>>
    /\ sendLog' = <<>>
    /\ UNCHANGED <<snapshot, idx, buf, data, clean>>
    /\ UNCHANGED regVars
    /\ UNCHANGED auxVars

\* run(): send() returned Err and unwrap() panics: the exporter thread ends.
UnwrapErr ==
    /\ epc = "failed"
    /\ epc' = "panicked"
    /\ UNCHANGED <<snapshot, idx, buf, data, exported, sendLog, clean>>
    /\ UNCHANGED regVars
    /\ UNCHANGED auxVars

InitExport ==
    /\ handles = <<>>
    /\ mappings = {}
    /\ lock = NoProducer
    /\ ppc = [p \in Producers |-> Idle]
    /\ issued = {}
    /\ applied = <<>>
    /\ nOps = 0
    /\ trace = FALSE
    /\ epc = "sleeping"
    /\ snapshot = <<>>
    /\ idx = 0
    /\ buf = <<>>
    /\ data = <<>>
    /\ exported = <<>>
    /\ sendLog = <<>>
    /\ clean = TRUE
    /\ mark = <<>>
    /\ shutdown = FALSE
    /\ heap = <<>>
    /\ recs = <<>>
    /\ json = <<>>

\* The metrics the producers of SpecExport register: two counters, a gauge
\* that shares its name with a counter, and a histogram.
ExportKeys ==
    {<<"Counter", spam>>, <<"Counter", ham>>, <<"Gauge", spam>>,
     <<"Histogram", ham>>}

RegisterExport == \E k \in ExportKeys : Register(k[1], k[2])

NextExport ==
    \/ RegisterExport
    \/ IncrementAny
    \/ UpdateAny
    \/ RecordAny
    \/ Tick
    \/ ExportEntry
    \/ ExportReturn
    \/ SendTo
    \/ SendReturnOk
    \/ Sleep
    \/ UnwrapErr

SpecExport == InitExport /\ [][NextExport]_vars

\* Names long enough for two lines to exceed 512 bytes together.
LongName == [i \in 1..LongNameLen |-> "x"]
BigNames == {LongName}

RegisterBig == \E kind \in MetricKinds, name \in BigNames : Register(kind, name)

NextBig ==
    \/ RegisterBig
    \/ IncrementAny
    \/ UpdateAny
    \/ RecordAny
    \/ Tick
    \/ ExportEntry
    \/ ExportReturn
    \/ SendTo
    \/ SendReturnOk
    \/ Sleep
    \/ UnwrapErr

SpecBig == InitExport /\ [][NextBig]_vars

----------------------------------------------------------------------------
(* Claims about the Recorder API (checked under Spec).                     *)

RECURSIVE SumSeq(_)
SumSeq(s) == IF s = <<>> THEN 0 ELSE s[1] + SumSeq(Tail(s))

SameKey(r1, r2) == r1.kind = r2.kind /\ r1.name = r2.name

\* C1: two registration calls return equal Identifiers if and only if they
\* were made with the same (kind, name) pair.
C1_IdentifierIffSameKey ==
    \A r1 \in issued, r2 \in issued : (r1.id = r2.id) <=> SameKey(r1, r2)

\* A key registered twice (the second call found it) beside an entry of the
\* same name under another kind.
C1_Witness ==
    \E r1 \in issued, r2 \in issued, r3 \in issued :
        /\ r1.path = "created" /\ r2.path = "fast"
        /\ SameKey(r1, r2) /\ r1.id = r2.id
        /\ r3.name = r1.name /\ r3.kind # r1.kind /\ r3.id # r1.id

\* C2 as stated: after every prefix of the increments made through an
\* Identifier, read_counter equals the plain sum of the deltas.
C2_CounterEqualsSum ==
    \A id \in DOMAIN handles :
        handles[id].kind = "Counter" =>
            read_counter(handles[id]) = SumSeq(applied[id])

\* C2 amended: after every prefix of the increments made through an
\* Identifier, read_counter equals the sum of the deltas modulo the width of
\* the counter word (fetch_add wraps).
C2_CounterEqualsSumModWidth ==
    \A id \in DOMAIN handles :
        handles[id].kind = "Counter" =>
            read_counter(handles[id]) = SumSeq(applied[id]) % CounterMod

\* A counter that has been incremented at least twice.
C2_Witness ==
    \E id \in DOMAIN handles :
        /\ handles[id].kind = "Counter"
        /\ Len(applied[id]) >= 2
        /\ read_counter(handles[id]) = SumSeq(applied[id]) % CounterMod

\* C3: after update_gauge(id, v1) then update_gauge(id, v2), read_gauge(id)
\* is v2: the gauge holds the last value written, whatever came before.
C3_GaugeLastWriteWins ==
    \A id \in DOMAIN handles :
        (handles[id].kind = "Gauge" /\ applied[id] # <<>>) =>
            read_gauge(handles[id]) = applied[id][Len(applied[id])]

\* A gauge written twice with two different values.
C3_Witness ==
    \E id \in DOMAIN handles :
        /\ handles[id].kind = "Gauge"
        /\ Len(applied[id]) >= 2
        /\ applied[id][1] # applied[id][2]
        /\ read_gauge(handles[id]) = applied[id][Len(applied[id])]

----------------------------------------------------------------------------
(* Claims about racing registrations (checked under SpecConc).             *)

SlotsOf(kind, name) ==
    {i \in DOMAIN handles : handles[i].kind = kind /\ handles[i].name = name}

RECURSIVE SumOver(_)
SumOver(S) ==
    IF S = {} THEN 0
    ELSE LET i == CHOOSE j \in S : TRUE
         IN  SumSeq(applied[i]) + SumOver(S \ {i})

\* C4: when producers concurrently register the same (kind, name), exactly
\* one entry is created for the key, all calls return the same Identifier,
\* and every increment made through a returned Identifier is in the value of
\* that one entry.
C4_OneEntryPerKey ==
    /\ \A kind \in MetricKinds, name \in Names :
           Cardinality(SlotsOf(kind, name)) <= 1
    /\ \A r1 \in issued, r2 \in issued : SameKey(r1, r2) => r1.id = r2.id
    /\ \A r \in issued :
           r.kind = "Counter" =>
               read_counter(handles[r.id]) =
                   SumOver(SlotsOf(r.kind, r.name)) % CounterMod

\* Two calls for one key both missed the first look: one created the entry,
\* the other waited for the lock and found it on the second look.
C4_Witness ==
    \E r1 \in issued, r2 \in issued :
        /\ SameKey(r1, r2)
        /\ r1.path = "created" /\ r2.path = "recheck"
        /\ r1.id = r2.id
        /\ Cardinality(SlotsOf(r1.kind, r1.name)) = 1

----------------------------------------------------------------------------
(* Claims about the encoder and the sender (checked under SpecExport and   *)
(* SpecBig).                                                               *)

\* The chunk size the encoder's comments name.
ChunkSize == 512

Exportable(h) == h.kind \in {"Counter", "Gauge"}

\* The statsd line of one entry, without its newline.
StatsdLine(h) ==
    IF h.kind = "Counter"
    THEN h.name \o <<":">> \o FormatU64(h.counter) \o <<"|", "c">>
    ELSE h.name \o <<":">> \o FormatF64(h.gauge) \o <<"|", "g">>

\* The lines of the entries e[from..], in that order, each newline-terminated.
RECURSIVE LinesFrom(_, _)
LinesFrom(e, from) ==
    IF from > Len(e) THEN <<>>
    ELSE (IF Exportable(handles[e[from]])
          THEN StatsdLine(handles[e[from]]) \o <<"\n">>
          ELSE <<>>) \o LinesFrom(e, from + 1)

\* str::lines(): the text cut at each newline.
RECURSIVE SplitLines(_, _, _)
SplitLines(bytes, from, line) ==
    IF from > Len(bytes) THEN (IF line = <<>> THEN <<>> ELSE <<line>>)
    ELSE IF bytes[from] = "\n" THEN <<line>> \o SplitLines(bytes, from + 1, <<>>)
    ELSE SplitLines(bytes, from + 1, Append(line, bytes[from]))

RECURSIVE SeqToBag(_)
SeqToBag(q) ==
    IF q = <<>> THEN EmptyBag ELSE SetToBag({q[1]}) (+) SeqToBag(Tail(q))

RECURSIVE BagOfEntries(_)
BagOfEntries(S) ==
    IF S = {} THEN EmptyBag
    ELSE LET i == CHOOSE j \in S : TRUE
         IN  SetToBag({StatsdLine(handles[i])}) (+) BagOfEntries(S \ {i})

\* The bytes the n-th send_to accepted.
Accepted(n) == SubSeq(sendLog[n].payload, 1, sendLog[n].result)

\* The number of bytes accepted by the send_to calls before the n-th.
RECURSIVE Offset(_)
Offset(n) == IF n <= 1 THEN 0 ELSE Offset(n - 1) + sendLog[n - 1].result

\* The lines the peer received in this tick, over all datagrams.
RECURSIVE ReceivedLines(_)
ReceivedLines(n) ==
    IF n = 0 THEN <<>>
    ELSE ReceivedLines(n - 1) \o SplitLines(Accepted(n), 1, <<>>)

NoSendError == \A n \in DOMAIN sendLog : sendLog[n].result # Err
NoShortWrite ==
    \A n \in DOMAIN sendLog : sendLog[n].result = Len(sendLog[n].payload)

ExportDone == epc = "export" /\ idx = Len(snapshot)

\* The registry holds exactly one entry, named spam, of this kind and value.
OnlySpam(kind, value) ==
    /\ Len(handles) = 1
    /\ handles[1].kind = kind /\ handles[1].name = spam
    /\ handles[1].counter = (IF kind = "Counter" THEN value ELSE 0)
    /\ handles[1].gauge = (IF kind = "Gauge" THEN value ELSE 0)

\* C5: export() returns exactly the concatenation, in enumeration order, of
\* one line '<name>:<value>|c\n' per Counter entry and '<name>:<value>|g\n'
\* per Gauge entry, nothing for a Histogram entry and no other bytes, so the
\* buffer consists of complete newline-terminated lines; a fresh counter spam
\* gives 'spam:0|c\n', after +1 'spam:1|c\n', a gauge set to 42.0 'spam:42|g\n'.
C5_ExportIsExactlyTheLines ==
    (ExportDone /\ clean) =>
        /\ buf = LinesFrom(snapshot, 1)
        /\ buf = <<>> \/ buf[Len(buf)] = "\n"
        /\ Len(SplitLines(buf, 1, <<>>)) =
               Cardinality({i \in DOMAIN handles : Exportable(handles[i])})
        /\ OnlySpam("Counter", 0) =>
               buf = <<"s", "p", "a", "m", ":", "0", "|", "c", "\n">>
        /\ OnlySpam("Counter", 1) =>
               buf = <<"s", "p", "a", "m", ":", "1", "|", "c", "\n">>
        /\ OnlySpam("Gauge", 0) =>
               buf = <<"s", "p", "a", "m", ":", "0", "|", "g", "\n">>
        /\ OnlySpam("Gauge", 420) =>
               buf = <<"s", "p", "a", "m", ":", "4", "2", "|", "g", "\n">>
        /\ OnlySpam("Gauge", 33) =>
               buf = <<"s", "p", "a", "m", ":", "3", ".", "3", "|", "g", "\n">>

\* An export of a histogram beside a counter or gauge that has been written.
C5_Witness ==
    /\ ExportDone /\ clean
    /\ \E i \in DOMAIN handles : handles[i].kind = "Histogram"
    /\ \E i \in DOMAIN handles :
           Exportable(handles[i]) /\ handles[i].counter + handles[i].gauge > 0
    /\ buf # <<>>

\* C6: a tick with no send error and no short write delivers lines whose
\* collection is exactly the Counter and Gauge entries of the registry, each
\* with its current value and each exactly once.
C6_TickDeliversEveryEntryOnce ==
    (epc = "returned" /\ clean /\ NoSendError /\ NoShortWrite) =>
        SeqToBag(ReceivedLines(Len(sendLog))) =
            BagOfEntries({i \in DOMAIN handles : Exportable(handles[i])})

\* A tick that delivered two lines in one datagram, one with a written value.
C6_Witness ==
    /\ epc = "returned" /\ clean /\ NoSendError /\ NoShortWrite
    /\ Len(sendLog) = 1
    /\ Cardinality({i \in DOMAIN handles : Exportable(handles[i])}) = 2
    /\ \E i \in DOMAIN handles : handles[i].counter + handles[i].gauge > 0
    /\ Len(ReceivedLines(1)) = 2

\* C7: every datagram handed to the socket starts at the beginning of a
\* metric line and ends with '\n', whatever the send results were.
C7_NoLineSplitting ==
    \A n \in DOMAIN sendLog :
        /\ Offset(n) = 0 \/ exported[Offset(n)] = "\n"
        /\ sendLog[n].payload # <<>>
        /\ sendLog[n].payload[Len(sendLog[n].payload)] = "\n"

\* C8: when every line fits in a chunk, no datagram handed to the socket is
\* larger than the chunk size.
C8_DatagramsFitTheChunk ==
    (\A i \in DOMAIN handles : Len(EncodeEntry(<<>>, handles[i])) <= ChunkSize) =>
        \A n \in DOMAIN sendLog : Len(sendLog[n].payload) <= ChunkSize

\* The bytes accepted by the first n send_to calls, in order.
RECURSIVE AcceptedUpTo(_)
AcceptedUpTo(n) == IF n = 0 THEN <<>> ELSE AcceptedUpTo(n - 1) \o Accepted(n)

\* C9: after a short write send() goes on with the remaining bytes, and when
\* it returns Ok the accepted byte counts sum to the length of the export
\* buffer and cover it from the first byte to the last without a gap.
C9_ShortWriteContinues ==
    /\ (epc = "send" /\ NoSendError) =>
           data = SubSeq(exported, Offset(Len(sendLog) + 1) + 1, Len(exported))
    /\ epc = "returned" =>
           /\ NoSendError
           /\ Offset(Len(sendLog) + 1) = Len(exported)
           /\ AcceptedUpTo(Len(sendLog)) = exported
           /\ \A n \in DOMAIN sendLog :
                  Accepted(n) = SubSeq(exported, Offset(n) + 1,
                                       Offset(n) + sendLog[n].result)

\* send() returned Ok after a send_to that accepted one byte of many.
C9_Witness ==
    /\ epc = "returned"
    /\ \E n \in DOMAIN sendLog :
           sendLog[n].result = 1 /\ Len(sendLog[n].payload) > 1
    /\ AcceptedUpTo(Len(sendLog)) = exported

\* C10: a send error never brings the run loop to a terminated state.
C10_SendErrorKeepsTheLoop == epc # "panicked"

----------------------------------------------------------------------------
(* Stopping the export loop (checked under SpecStop).                      *)

\* Somebody outside the exporter thread asks the loop to stop. run() takes
\* no argument, holds no channel or flag and its thread is detached, so the
\* request is an event no step of the loop reads.
RequestShutdown ==
    /\ ~shutdown
    /\ shutdown' = TRUE
    /\ UNCHANGED regVars
    /\ UNCHANGED expVars
    /\ UNCHANGED <<mark, heap, recs, json>>

\* One step of the exporter thread.
ExporterStep ==
    \/ Tick
    \/ ExportEntry
    \/ ExportReturn
    \/ SendTo
    \/ SendReturnOk
    \/ Sleep
    \/ UnwrapErr

NextStop ==
    \/ RegisterExport
    \/ IncrementAny
    \/ UpdateAny
    \/ RecordAny
    \/ Tick
    \/ ExportEntry
    \/ ExportReturn
    \/ SendTo
    \/ SendReturnOk
    \/ Sleep
    \/ UnwrapErr
    \/ RequestShutdown

\* The exporter runs on a thread of its own, which the scheduler keeps
\* running: whenever the loop can take a step it eventually takes one.
SpecStop == InitExport /\ [][NextStop]_vars /\ WF_vars(ExporterStep)

\* run() has returned or unwound: the loop takes no further step.
Terminated == epc = "panicked"

\* C11: from every state of the run loop a shutdown request eventually brings
\* the loop to a terminated state.
C11_ShutdownStopsTheLoop == shutdown ~> Terminated

----------------------------------------------------------------------------
(* Claims about Identifiers the registry did not issue (checked under      *)
(* Spec).                                                                  *)

\* The Identifiers some register_* call has returned.
IssuedIds == {r.id : r \in issued}

\* A call of increment_counter, update_gauge or record_histogram with id.
UpdateThrough(id) ==
    \/ \E value \in Deltas : IncrementCounter(id, value)
    \/ \E value \in GaugeValues : UpdateGauge(id, value)
    \/ \E value \in Samples : RecordHistogram(id, value)

\* The number of writes that reached a handle.
RECURSIVE WritesUpTo(_)
WritesUpTo(n) ==
    IF n = 0 THEN 0 ELSE WritesUpTo(n - 1) + Len(applied[n])

\* C12: increment_counter, update_gauge and record_histogram called with an
\* Identifier the registry never issued complete without a crash and change
\* nothing: no entry is created, and every entry keeps its kind and value.
C12_UnknownIdentifierIsNoOp ==
    /\ [](\A id \in Identifiers \ IssuedIds :
              nOps < OpBudget => ENABLED UpdateThrough(id))
    /\ [][\A id \in Identifiers \ IssuedIds :
              UpdateThrough(id) => (handles' = handles /\ mappings' = mappings)]_vars

\* A call with an unissued Identifier has been made on a registry that
\* holds an entry: more calls were made than writes reached a handle.
C12_Witness ==
    /\ handles # <<>>
    /\ nOps > WritesUpTo(Len(applied))

----------------------------------------------------------------------------
(* Recorders and their clones (SpecClone). PlainRecorder holds an          *)
(* Arc<Registry> and derives Clone; StatsdBuilder::build_with_registry and *)
(* the exporters take such a value. Registries live in heap; a recorder is *)
(* the address of one.                                                     *)

\* Number of recorder values (the first one and its clones).
MaxClones == 2

\* Registry::new()
EmptyRegistry == [handles |-> <<>>, mappings |-> {}]

\* Arc::clone(&self.registry): the address the clone holds. A deep copy
\* would hold the address of a new allocation.
arc_clone_deep(hp, addr) == Len(hp) + 1
arc_clone(hp, addr) == addr

\* The heap after a clone that holds address a was made from one holding
\* addr: an address beyond the heap is a new allocation with a copy.
HeapAfterClone(hp, addr, a) ==
    IF a \in DOMAIN hp THEN hp ELSE Append(hp, hp[addr])

\* The Identifier get_or_create_identifier returns for a key.
RegisteredId(reg, kind, name) ==
    LET found == Lookup(reg.mappings, CompositeKey(kind, name))
    IN  IF found # NoId THEN found ELSE Len(reg.handles) + 1

\* The registry after get_or_create_identifier for a key.
RegistryAfterRegister(reg, kind, name) ==
    IF Lookup(reg.mappings, CompositeKey(kind, name)) # NoId
    THEN reg
    ELSE [handles |-> SlabInsert(reg.handles, kind, name),
          mappings |-> reg.mappings \cup
              {[kind |-> kind, name |-> name, id |-> Len(reg.handles) + 1]}]


\* PlainRecorder::new(): one recorder value holding a fresh registry.
InitClone ==
    /\ handles = <<>>
    /\ mappings = {}
    /\ lock = NoProducer
    /\ ppc = [p \in Producers |-> Idle]
    /\ issued = {}
    /\ applied = <<>>
    /\ nOps = 0
    /\ trace = TRUE
    /\ epc = "sleeping"
    /\ snapshot = <<>>
    /\ idx = 0
    /\ buf = <<>>
    /\ data = <<>>
    /\ exported = <<>>
    /\ sendLog = <<>>
    /\ clean = TRUE
    /\ mark = <<>>
    /\ shutdown = FALSE
    /\ heap = <<EmptyRegistry>>
    /\ recs = <<1>>
    /\ json = <<>>

\* What a step on the heap leaves alone.
cloneFrame ==
    <<handles, mappings, lock, ppc, trace, epc, snapshot, idx, buf, data,
      exported, sendLog, clean, mark, shutdown, json>>

\* recorder.clone() on recorder value r.
CloneRecorder(r) ==
    LET a == arc_clone(heap, recs[r])
    IN  /\ Len(recs) < MaxClones
        /\ recs' = Append(recs, a)
        /\ heap' = HeapAfterClone(heap, recs[r], a)
        /\ UNCHANGED <<issued, applied, nOps>>
        /\ UNCHANGED cloneFrame

\* register_counter / register_gauge / register_histogram through r.
RegisterVia(r, kind, name) ==
    LET reg == heap[recs[r]]
        id == RegisteredId(reg, kind, name)
    IN  /\ id \in DOMAIN reg.handles \/ Len(reg.handles) < MaxEntries
        /\ heap' = [heap EXCEPT ![recs[r]] = RegistryAfterRegister(reg, kind, name)]
        /\ issued' = issued \cup
               {[kind |-> kind, name |-> name, id |-> id, via |-> r]}
        /\ applied' = IF id \in DOMAIN applied THEN applied
                      ELSE Append(applied, <<>>)
        /\ UNCHANGED <<recs, nOps>>
        /\ UNCHANGED cloneFrame

\* increment_counter(id, value) through r.
IncrementVia(r, id, value) ==
    LET hs == heap[recs[r]].handles
    IN  /\ nOps < OpBudget
        /\ id \in DOMAIN hs
        /\ hs[id].kind = "Counter"
        /\ heap' = [heap EXCEPT ![recs[r]].handles =
                        with_handle(hs, id, increment_counter(hs[id], value))]
        /\ applied' = Record(id, value)
        /\ nOps' = nOps + 1
        /\ UNCHANGED <<recs, issued>>
        /\ UNCHANGED cloneFrame

\* update_gauge(id, value) through r.
UpdateVia(r, id, value) ==
    LET hs == heap[recs[r]].handles
    IN  /\ nOps < OpBudget
        /\ id \in DOMAIN hs
        /\ hs[id].kind = "Gauge"
        /\ heap' = [heap EXCEPT ![recs[r]].handles =
                        with_handle(hs, id, update_gauge(hs[id], value))]
        /\ applied' = Record(id, value)
        /\ nOps' = nOps + 1
        /\ UNCHANGED <<recs, issued>>
        /\ UNCHANGED cloneFrame

\* The metrics registered through the clones: a counter and a gauge of one
\* name.
CloneKeys == {<<"Counter", spam>>, <<"Gauge", spam>>}

CloneAny == \E r \in DOMAIN recs : CloneRecorder(r)
RegisterViaAny ==
    \E r \in DOMAIN recs, k \in CloneKeys : RegisterVia(r, k[1], k[2])
IncrementViaAny ==
    \E r \in DOMAIN recs, id \in Identifiers, value \in Deltas :
        IncrementVia(r, id, value)
UpdateViaAny ==
    \E r \in DOMAIN recs, id \in Identifiers, value \in GaugeValues :
        UpdateVia(r, id, value)

NextClone ==
    \/ CloneAny
    \/ RegisterViaAny
    \/ IncrementViaAny
    \/ UpdateViaAny

SpecClone == InitClone /\ [][NextClone]_vars

\* The value a handle holds after the writes ws, starting from zero.
CounterAfter(ws) == SumSeq(ws) % CounterMod
GaugeAfter(ws) == IF ws = <<>> THEN 0 ELSE ws[Len(ws)]

\* C13: clones of a recorder share one registry: cloning never makes a second
\* copy of the storage, every clone reads for every metric the value that the
\* writes made through all clones together produce, every clone sees every
\* registration, and registering one (kind, name) through two clones returns
\* one Identifier.
C13_ClonesShareOneRegistry ==
    /\ Len(heap) = 1
    /\ \A r1, r2 \in DOMAIN recs :
           /\ recs[r1] = recs[r2]
           /\ heap[recs[r1]] = heap[recs[r2]]
    /\ \A r \in DOMAIN recs, i \in issued :
           LET hs == heap[recs[r]].handles
           IN  /\ i.id \in DOMAIN hs
               /\ hs[i.id].kind = i.kind /\ hs[i.id].name = i.name
               /\ i.kind = "Counter" =>
                      read_counter(hs[i.id]) = CounterAfter(applied[i.id])
               /\ i.kind = "Gauge" =>
                      read_gauge(hs[i.id]) = GaugeAfter(applied[i.id])
    /\ \A i1, i2 \in issued : SameKey(i1, i2) => i1.id = i2.id

\* Two recorder values exist; one metric was registered through both, and
\* written through the one that did not create it.
C13_Witness ==
    /\ Len(recs) = 2
    /\ \E i1, i2 \in issued :
           /\ SameKey(i1, i2) /\ i1.via = 1 /\ i2.via = 2
           /\ applied[i1.id] # <<>>
    /\ \E i \in issued : i.kind = "Gauge" /\ applied[i.id] # <<>>

----------------------------------------------------------------------------
(* Claims about what the exporter leaves alone (checked under SpecExport). *)

\* export() has returned in the current tick.
Exported == epc \in {"send", "returned", "failed", "panicked"}

\* C14: no step of export() or send(), whether a send succeeds, is short or
\* fails, adds or removes an entry or changes a counter, gauge or histogram
\* value (counters are not reset by being sent); so after a tick during
\* which no producer ran, the lines another export would produce are the
\* lines this one produced.
C14_ExportLeavesTheRegistry ==
    /\ [][ExporterStep => (handles' = handles /\ mappings' = mappings)]_vars
    /\ []((Exported /\ clean) =>
              SeqToBag(SplitLines(exported, 1, <<>>)) =
                  BagOfEntries({i \in DOMAIN handles : Exportable(handles[i])}))

\* A tick over a counter with a written value ended in a failed send that
\* followed a short one; no producer ran meanwhile.
C14_Witness ==
    /\ epc = "panicked" /\ clean
    /\ \E i \in DOMAIN handles :
           handles[i].kind = "Counter" /\ handles[i].counter > 0
    /\ Len(sendLog) = 2
    /\ sendLog[1].result = 1
    /\ sendLog[2].result = Err

\* The entry at id is of this kind and name.
BoundTo(hs, id, kind, name) ==
    /\ id \in DOMAIN hs
    /\ hs[id].kind = kind
    /\ hs[id].name = name

\* The line is the statsd line of a metric of this kind and name.
IsLineOf(line, kind, name) ==
    /\ Len(line) > Len(name) + 3
    /\ SubSeq(line, 1, Len(name) + 1) = name \o <<":">>
    /\ SubSeq(line, Len(line) - 1, Len(line)) =
           <<"|", IF kind = "Counter" THEN "c" ELSE "g">>

\* C15: no step (registration, update, or step of an export tick) removes an
\* entry or rebinds an Identifier: an Identifier bound to a (kind, name) pair
\* refers to that pair after the step, every enumeration an export begins
\* with holds every entry, and every finished export has a line for every
\* Counter and Gauge entry that was bound when the tick began.
C15_EntriesAndIdentifiersAreStable ==
    /\ [][/\ \A e \in mappings :
                 e \in mappings' /\ BoundTo(handles', e.id, e.kind, e.name)
          /\ \A id \in DOMAIN handles :
                 BoundTo(handles', id, handles[id].kind, handles[id].name)
          /\ (epc = "sleeping" /\ epc' = "export") =>
                 \A id \in DOMAIN handles :
                     \E k \in DOMAIN snapshot' : snapshot'[k] = id]_vars
    /\ [](ExportDone =>
              \A k \in DOMAIN snapshot :
                  LET h == handles[snapshot[k]]
                  IN  Exportable(h) =>
                          \E n \in DOMAIN SplitLines(buf, 1, <<>>) :
                              IsLineOf(SplitLines(buf, 1, <<>>)[n], h.kind, h.name))

\* An export has finished over two entries, after an update was made.
C15_Witness ==
    /\ ExportDone
    /\ Len(snapshot) = 2
    /\ Cardinality(mappings) = 2
    /\ nOps > 0
    /\ Len(SplitLines(buf, 1, <<>>)) = 2

----------------------------------------------------------------------------
(* Claims about counter values over time (checked under Spec).             *)

----------------------------------------------------------------------------
(* increment_counter called by several producers at once (SpecInc).        *)

\* Producer p calls increment_counter(id, value): with_handle finds the
\* handle in the slab.
IncBegin(p, id, value) ==
    /\ ppc[p].pc = "idle"
    /\ nOps < OpBudget
    /\ id \in DOMAIN handles
    /\ handles[id].kind = "Counter"
    /\ ppc' = [ppc EXCEPT ![p] = [Idle EXCEPT !.pc = "inc", !.id = id,
                                              !.value = value,
                                              !.seen = read_counter(handles[id])]]
    /\ nOps' = nOps + 1
    /\ UNCHANGED <<handles, mappings, lock, issued, applied, trace>>
    /\ UNCHANGED expVars
    /\ UNCHANGED auxVars

\* Producer p's closure runs: the fetch_add on the handle; the call returns.
\* The producer's record keeps what its last call was.
IncApply(p) ==
    LET id == ppc[p].id
    IN  /\ ppc[p].pc = "inc"
        /\ handles' = with_handle(handles, id,
                          fetch_add(handles[id], ppc[p].seen, ppc[p].value))
        /\ applied' = Record(id, ppc[p].value)
        /\ ppc' = [ppc EXCEPT ![p].pc = "idle"]
        /\ clean' = FALSE
        /\ UNCHANGED <<mappings, lock, issued, nOps, trace>>
        /\ UNCHANGED <<epc, snapshot, idx, buf, data, exported, sendLog>>
        /\ UNCHANGED auxVars

\* The metrics of SpecInc: two counters and a gauge.
IncKeys == {<<"Counter", spam>>, <<"Counter", ham>>, <<"Gauge", spam>>}

RegisterInc == \E k \in IncKeys : Register(k[1], k[2])
IncBeginAny ==
    \E p \in Producers, id \in Identifiers, value \in Deltas :
        IncBegin(p, id, value)
IncApplyAny == \E p \in Producers : IncApply(p)

NextInc ==
    \/ RegisterInc
    \/ IncBeginAny
    \/ IncApplyAny

SpecInc == Init /\ [][NextInc]_vars

\* Every increment_counter call that was made has returned.
AllReturned == \A p \in Producers : ppc[p].pc = "idle"

\* C17 as claimed: once all concurrent increment_counter calls have
\* completed, each counter equals the sum of the deltas passed for it.
C17_ConcurrentIncrementsAddUp ==
    AllReturned =>
        \A id \in DOMAIN handles :
            handles[id].kind = "Counter" =>
                read_counter(handles[id]) = SumSeq(applied[id])

\* C17: in every interleaving of concurrent increment_counter calls each
\* counter equals the sum, modulo the width of the counter word, of the
\* deltas of the calls completed on it, and every other metric keeps the
\* value it had.
C17_ConcurrentIncrementsAddUpModWidth ==
    \A id \in DOMAIN handles :
        /\ handles[id].kind = "Counter" =>
               read_counter(handles[id]) = CounterAfter(applied[id])
        /\ handles[id].kind # "Counter" =>
               handles[id] = NewHandle(handles[id].kind, handles[id].name)

\* Both producers called increment_counter on one counter, each finding the
\* handle before the other's fetch_add, and both calls have returned; a
\* second metric exists.
C17_Witness ==
    /\ AllReturned
    /\ ppc[1].id = ppc[2].id
    /\ ppc[1].id \in DOMAIN handles
    /\ ppc[1].seen = 0 /\ ppc[2].seen = 0
    /\ Len(applied[ppc[1].id]) = 2
    /\ ppc[1].value # ppc[2].value
    /\ Len(handles) = 2

----------------------------------------------------------------------------
(* export() beside running producers, with the history of the writes       *)
(* (SpecRead).                                                             *)

\* The metrics of SpecRead: a counter and a gauge.
ReadKeys == {<<"Counter", spam>>, <<"Gauge", ham>>}

RegisterRead == \E k \in ReadKeys : Register(k[1], k[2])

NextRead ==
    \/ RegisterRead
    \/ IncrementAny
    \/ UpdateAny
    \/ Tick
    \/ ExportEntry
    \/ ExportReturn

SpecRead == Init /\ [][NextRead]_vars

\* The entry at id as it was after the first n writes made through id.
HandleAfter(id, n) ==
    [handles[id] EXCEPT !.counter = CounterAfter(SubSeq(applied[id], 1, n)),
                        !.gauge = GaugeAfter(SubSeq(applied[id], 1, n))]

\* v lies between the values a and b, in either order.
Between(a, v, b) == (a <= v /\ v <= b) \/ (b <= v /\ v <= a)

\* The numbers of writes after which the entry at id may have been read by
\* the export that is now finishing: the entry held each of these states at
\* some moment of the export. With ranged, only those whose counter value
\* lies between the value at the start and the value now.
ReadWindow(id, ranged) ==
    {n \in mark[id]..Len(applied[id]) :
        ranged => Between(HandleAfter(id, mark[id]).counter,
                          HandleAfter(id, n).counter,
                          handles[id].counter)}

\* bytes is the concatenation of the lines of the entries snapshot[k..],
\* each with a value from its window.
RECURSIVE EmittedFrom(_, _, _)
EmittedFrom(k, bytes, ranged) ==
    IF k > Len(snapshot) THEN bytes = <<>>
    ELSE IF ~Exportable(handles[snapshot[k]])
    THEN EmittedFrom(k + 1, bytes, ranged)
    ELSE \E n \in ReadWindow(snapshot[k], ranged) :
             LET line == StatsdLine(HandleAfter(snapshot[k], n)) \o <<"\n">>
             IN  /\ Len(bytes) >= Len(line)
                 /\ SubSeq(bytes, 1, Len(line)) = line
                 /\ EmittedFrom(k + 1, SubSeq(bytes, Len(line) + 1, Len(bytes)),
                                ranged)

\* The step in which export() returns its buffer.
ExportReturns == ExportDone /\ epc' = "send"

\* C18 as claimed: every value an export emits is one the metric held at some
\* moment during that export, and an emitted counter value lies between the
\* counter's value when the export started and its value when it finished.
C18_ExportedValuesWithinStartAndFinish ==
    [][ExportReturns => EmittedFrom(1, buf, TRUE)]_vars

\* C18: every value an export emits is one the metric held at some moment
\* during that export: a counter value is the sum, modulo the width of the
\* word, of the increments completed by that moment, a gauge value is the
\* last value written by that moment or the initial 0; nothing else is
\* emitted.
C18_ExportedValuesWereHeld ==
    [][ExportReturns => EmittedFrom(1, buf, FALSE)]_vars

\* An export that began on a fresh counter has returned 'spam:1|c': the value
\* between the two increments made while it ran.
C18_Witness ==
    /\ epc = "send"
    /\ Len(handles) = 1
    /\ handles[1].kind = "Counter"
    /\ mark = <<0>>
    /\ applied = << <<1, 3>> >>
    /\ exported = <<"s", "p", "a", "m", ":", "1", "|", "c", "\n">>

----------------------------------------------------------------------------
(* Claims about a failed send (checked under SpecExport).                  *)

\* send() has returned an error in the current tick.
SendFailed == epc \in {"failed", "panicked"}

\* C19: once a send_to call returns an error, send() makes no further
\* send_to call in that tick and returns the error; the bytes not yet sent
\* are dropped and never handed to the socket later; and the first send_to
\* of every tick carries the whole buffer export() returned in that tick.
C19_SendErrorAbandonsTheTick ==
    /\ [](/\ \A n \in DOMAIN sendLog :
                 sendLog[n].result = Err => (n = Len(sendLog) /\ SendFailed)
          /\ SendFailed =>
                 /\ sendLog # <<>>
                 /\ sendLog[Len(sendLog)].result = Err
                 /\ data = <<>>
          /\ sendLog # <<>> => sendLog[1].payload = exported)
    /\ [][SendFailed => (sendLog' = sendLog /\ data' = data)]_vars

\* A tick whose second send_to failed after the first had accepted one byte
\* of a longer buffer: the rest of the buffer was not sent.
C19_Witness ==
    /\ SendFailed
    /\ Len(sendLog) = 2
    /\ sendLog[1].result = 1
    /\ sendLog[2].result = Err
    /\ Len(sendLog[2].payload) > 1
    /\ data = <<>>

----------------------------------------------------------------------------
(* HtmlExporter::json_snapshot (SpecJson).                                 *)

\* handle.read_histogram(): the samples recorded so far.
read_histogram(h) == h.hist

\* The serde_json Value of a handle's reading: an unsigned number, a float
\* (in tenths) or an array of numbers.
ReadingOf(h) ==
    IF h.kind = "Counter" THEN <<"u64", read_counter(h)>>
    ELSE IF h.kind = "Gauge" THEN <<"f64", read_gauge(h)>>
    ELSE <<"array", read_histogram(h)>>

\* Map::insert(key, value): a later value for a key replaces the earlier.
MapInsert(m, key, value) ==
    [k \in DOMAIN m \cup {key} |-> IF k = key THEN value ELSE m[k]]

\* The Map<String, Value> collected from the first n entries of the
\* enumeration e of the slab hs, keyed by desc.key().name().
RECURSIVE CollectMetrics(_, _, _)
CollectMetrics(hs, e, n) ==
    IF n = 0 THEN <<>>
    ELSE MapInsert(CollectMetrics(hs, e, n - 1),
                   hs[e[n]].name, ReadingOf(hs[e[n]]))

\* json!({ "metrics": metrics })
json_snapshot(hs, e) == [metrics |-> CollectMetrics(hs, e, Len(e))]

\* A request for data.json is served.
JsonSnapshot ==
    /\ \E e \in Enumerations(handles) : json' = json_snapshot(handles, e)
    /\ UNCHANGED regVars
    /\ UNCHANGED expVars
    /\ UNCHANGED <<mark, shutdown, heap, recs>>

\* The metrics of SpecJson: a counter and a gauge of one name, and a
\* histogram.
JsonKeys == {<<"Counter", spam>>, <<"Gauge", spam>>, <<"Histogram", ham>>}

RegisterJson == \E k \in JsonKeys : Register(k[1], k[2])

NextJson ==
    \/ RegisterJson
    \/ IncrementAny
    \/ UpdateAny
    \/ RecordAny
    \/ JsonSnapshot

SpecJson == InitExport /\ [][NextJson]_vars

\* C20: the object json_snapshot() returns holds, for every registry entry,
\* that entry's current reading, and as many values as the registry has
\* entries.
C20_JsonReportsEveryEntry ==
    [][JsonSnapshot =>
           /\ \A id \in DOMAIN handles :
                  /\ handles[id].name \in DOMAIN json'.metrics
                  /\ json'.metrics[handles[id].name] = ReadingOf(handles[id])
           /\ Cardinality(DOMAIN json'.metrics) = Len(handles)]_vars

----------------------------------------------------------------------------
(* send() over a socket that may accept any number of bytes (SpecSend).    *)

\* Number of send_to calls of one tick that report 0 bytes written.
MaxZeroSends == 1

\* The send_to calls made so far in this tick that reported 0 bytes.
ZeroSends == {n \in DOMAIN sendLog : sendLog[n].result = 0}

\* The results send_to may give for a payload: an error, any count from one
\* byte to all of it, or (a bounded number of times) no byte.
AnyResults(d) ==
    {Err} \cup 1..Len(d)
          \cup (IF Cardinality(ZeroSends) < MaxZeroSends THEN {0} ELSE {})

\* send(): one iteration of the while loop, over such a socket.
SendToAny == SendWith(AnyResults(data))

\* The metric of SpecSend: one counter with a short line.
SendKeys == {<<"Counter", ham>>}

RegisterSend == \E k \in SendKeys : Register(k[1], k[2])

\* One step of the exporter thread over such a socket.
SenderStep ==
    \/ Tick
    \/ ExportEntry
    \/ ExportReturn
    \/ SendToAny
    \/ SendReturnOk
    \/ Sleep
    \/ UnwrapErr

NextSend ==
    \/ RegisterSend
    \/ IncrementAny
    \/ Tick
    \/ ExportEntry
    \/ ExportReturn
    \/ SendToAny
    \/ SendReturnOk
    \/ Sleep
    \/ UnwrapErr

\* The exporter thread keeps running: a step it can take it eventually takes.
SpecSend == InitExport /\ [][NextSend]_vars /\ WF_vars(SenderStep)

\* send() is inside its loop / has returned (Ok or the error).
Sending == epc = "send"
SendReturned == epc \in {"returned", "failed"}

\* C21: send() terminates in every tick in which every send_to call returns
\* an error or reports at least one byte: each such call shortens the data
\* left, there are at most as many calls as the buffer has bytes, and
\* send() returns; send() can stay in its loop only after a send_to call
\* that reported 0 bytes.
C21_SendTerminates ==
    /\ [](ZeroSends = {} => Len(sendLog) <= Len(exported))
    /\ [][(Sending /\ sendLog' # sendLog) =>
              \/ sendLog'[Len(sendLog')].result = 0
              \/ Len(data') < Len(data)]_vars
    /\ Sending ~> (SendReturned \/ ZeroSends # {})

\* send() returned Ok after one send_to call per byte of the buffer.
C21_Witness ==
    /\ epc = "returned"
    /\ exported # <<>>
    /\ Len(sendLog) = Len(exported)
    /\ ZeroSends = {}

----------------------------------------------------------------------------
(* Claims about a tick with nothing to export (checked under SpecExport).  *)

\* The registry holds no Counter and no Gauge entry.
NothingToExport == \A i \in DOMAIN handles : ~Exportable(handles[i])

\* C22: when the registry holds no Counter and no Gauge entry (it is empty or
\* holds only Histogram entries), the buffer export() fills and returns is
\* empty, the tick makes no send_to call, not even with an empty payload,
\* and send() returns Ok.
C22_NothingToExportSendsNothing ==
    (clean /\ NothingToExport) =>
        /\ buf = <<>>
        /\ exported = <<>>
        /\ data = <<>>
        /\ sendLog = <<>>
        /\ epc \notin {"failed", "panicked"}
        /\ epc = "send" => (~ENABLED SendTo /\ ENABLED SendReturnOk)

\* send() returned Ok, without a send_to call, in a tick over a registry
\* that holds a histogram and nothing else.
C22_Witness ==
    /\ epc = "returned"
    /\ clean
    /\ handles # <<>>
    /\ NothingToExport
    /\ sendLog = <<>>

====
